---- MODULE Spec2Model ----
(***************************************************************************)
(* Outbound message dispatch of the real-estate outreach backend:          *)
(* the daily send limiter, the retrying send_campaign_email, the           *)
(* start_campaign dispatch loop with its EmailSequence rows, the demo      *)
(* simulations that touch those rows, the lead status field, the email     *)
(* template store with its is_default flag, the two send backends, the     *)
(* chatbot of AIService, the campaign endpoints, the CSV upload, and       *)
(* send_campaign_email as called by several requests of one event loop.    *)
(*                                                                         *)
(* Strings are modelled by what the code does with them: an error text is  *)
(* its length (-1 stands for "no such key"/NULL), so that truncation       *)
(* [:255] and emptiness are computed, and a provider message identifier    *)
(* is a positive number (0 stands for NULL).                               *)
(***************************************************************************)
EXTENDS Integers, Sequences, FiniteSets, TLC

\* ------------------------------------------------------------------ bounds
MaxLeads == 2
MaxSeqs == 3
MaxLiveSeqs == 2
MaxDay == 1
MaxTemplates == 4
MaxCount == 3
MaxParts == 2
MaxRequests == 2

\* ------------------------------------------------------- program constants
\* max_retries: int = 3
MaxRetries == 3
\* bounce_reason = ...[:255]
BounceReasonMax == 255
\* len("Daily send limit reached (N/day). Increase SENDGRID_DAILY_SEND_LIMIT
\* in .env or wait until tomorrow UTC.") for a one-digit N
LimitMsgLen == 104

\* sample_leads of seed_demo_data holds 5 leads; the model keeps the first MaxLeads
LeadIds == 1..MaxLeads
\* seed_demo_data creates one campaign
CampIds == {1}

\* leads_status_check, in the order of the funnel
LeadStatuses == <<"uploaded", "contacted", "replied", "interested", "booked", "closed">>
LeadStatusSet == {LeadStatuses[i] : i \in 1..Len(LeadStatuses)}

\* Values SENDGRID_DAILY_SEND_LIMIT takes in the model (0 and below: unlimited)
Limits == {0, 2}
\* Lengths of str(e) for the exceptions the provider call raises
ErrLens == {0, 300}

VARIABLES
    limit,        \* settings.SENDGRID_DAILY_SEND_LIMIT
    configured,   \* settings.sendgrid_configured
    today,        \* date.today()
    limiter,      \* _daily_limiter: [count, date]
    leadStatus,   \* leads.status by lead id, "absent" when there is no such row
    campStatus,   \* campaigns.status by campaign id, "absent" when no such row
    campStarted,  \* campaigns.started_at IS NOT NULL
    campEnded,    \* campaigns.ended_at IS NOT NULL
    seqs,         \* email_sequences rows, by id (1..Len)
    msgCounter,   \* number of message identifiers the backends have issued
    pc,           \* position of the start_campaign request in flight
    queue,        \* leads of the batch not yet processed
    results,      \* start_campaign's results dict
    call,         \* locals of the send_campaign_email call of the current lead
    callsToday,   \* history: number of send_campaign_email calls begun today
    cleanToday,   \* history: no provider failure today, no call in flight at midnight
    templates,    \* email_templates rows, by id (1..Len)
    probe,        \* the last direct call of a DailySendLimiter method and its answer
    template,     \* argument of personalize_template: the template text
    lead_data,    \* argument of personalize_template: the lead dict
    rendered,     \* the texts personalize_template has returned, in order
    sendgrid,     \* settings.SENDGRID_API_KEY and settings.SENDGRID_FROM_EMAIL
    delivery,     \* the last direct call of send_email / send_bulk and its answer
    chat,         \* the last call of generate_chatbot_reply and its answer
    response,     \* the last answer of a campaign endpoint: operation and HTTP status
    leadEmails,   \* leads.email by lead id, 0 when there is no such row
    upload,       \* the last POST /api/leads/upload: the file and the answer
    workers,      \* send_campaign_email calls in flight on the event loop
    okLog         \* history: send_campaign_email calls that returned success, by day

vars == <<limit, configured, today, limiter, leadStatus, campStatus, campStarted, campEnded,
          seqs, msgCounter, pc, queue, results, call, callsToday, cleanToday, templates,
          probe, template, lead_data, rendered, sendgrid, delivery, chat, response,
          leadEmails, upload, workers, okLog>>

\* what only the utilities called on their own touch
serviceVars == <<sendgrid, delivery, chat, upload, workers, okLog>>

quietVars == <<probe, template, lead_data, rendered, serviceVars>>

\* what the campaign and template endpoints leave alone
unitVars == <<quietVars, response, leadEmails, campEnded>>

dispatchVars == <<limiter, seqs, msgCounter, pc, queue, results, call, callsToday,
                  cleanToday>>

Min(a, b) == IF a < b THEN a ELSE b

\* ------------------------------------------------------ DailySendLimiter
\* a plausible slip: the marker moves, the count of the day before stays
reset_marker_only(lim, t) ==
    IF t # lim.date THEN [count |-> lim.count, date |-> t] ELSE lim

\* _reset_if_new_day: the limiter after it
reset_if_new_day(lim, t) ==
    IF t # lim.date THEN [count |-> 0, date |-> t] ELSE lim

\* a plausible slip: the limit 0 is not taken as "unlimited"
can_send_no_unlimited(lim, t) ==
    LET l == reset_if_new_day(lim, t)
    IN  l.count < limit

\* a plausible slip: <= for <
can_send_inclusive(lim, t) ==
    LET l == reset_if_new_day(lim, t)
    IN  IF limit <= 0 THEN TRUE ELSE l.count <= limit

\* the value can_send returns, on the limiter it has just reset
can_send(lim, t) ==
    LET l == reset_if_new_day(lim, t)
    IN  IF limit <= 0 THEN TRUE ELSE l.count < limit

record_send(lim, t) ==
    LET l == reset_if_new_day(lim, t)
    IN  [l EXCEPT !.count = @ + 1]

\* ------------------------------------------------------ results of a send
NoResult == [success |-> FALSE, message_id |-> 0, error |-> -1, skipped |-> FALSE]

\* the dict returned when the daily limit is reached
SkippedResult ==
    [success |-> FALSE, message_id |-> 0, error |-> LimitMsgLen, skipped |-> TRUE]

\* _send_mock / the success return of _send_via_sendgrid
SuccessResult(mid) ==
    [success |-> TRUE, message_id |-> mid, error |-> -1, skipped |-> FALSE]

\* the except branch of _send_via_sendgrid: error_msg = str(e)
FailureResult(errLen) ==
    [success |-> FALSE, message_id |-> 0, error |-> errLen, skipped |-> FALSE]

\* a plausible slip: the exponent off by one
wait_seconds_exponent_off(attempt) == 2 ^ attempt

\* wait_seconds = 2 ** (attempt - 1)
wait_seconds(attempt) == 2 ^ (attempt - 1)

\* a plausible slip: one attempt more than max_retries
more_attempts_one_extra(attempt) == attempt < MaxRetries + 1

\* a plausible slip: the last attempt also retries
more_attempts_inclusive(attempt) == attempt <= MaxRetries

\* "for attempt in range(1, max_retries + 1)" goes on, "if attempt < max_retries"
more_attempts(attempt) == attempt < MaxRetries

IdleCall ==
    [sequence_id |-> 0, attempt |-> 0, last_result |-> NoResult,
     slept |-> 0, provider_calls |-> 0, record_sends |-> 0, limiter_checks |-> 0,
     count_before |-> 0, day_before |-> 0, index_today |-> 0, returned |-> FALSE]

EmptyResults ==
    [campaign_id |-> 0, total_leads |-> 0, emails_sent |-> 0, emails_failed |-> 0,
     details |-> <<>>]

\* no DailySendLimiter method has been called directly
NoProbe ==
    [op |-> "none", ok |-> FALSE, value |-> 0,
     before |-> [count |-> 0, date |-> 0], day |-> 0]

\* ------------------------------------------------- Python values
\* A text is a sequence of atoms: a brace, a blank, a word. A value of a lead
\* dict is a text, an integer, None, or the key is absent.
Absent == [kind |-> "absent", s |-> <<>>, n |-> 0]
None == [kind |-> "none", s |-> <<>>, n |-> 0]
StrV(s) == [kind |-> "str", s |-> s, n |-> 0]
IntV(n) == [kind |-> "int", s |-> <<>>, n |-> n]

\* the keys personalize_template reads
Attrs == {"first_name", "last_name", "email", "phone", "address", "property_type",
          "estimated_value", "lead_id"}

\* the dict {}
EmptyLeadData == [a \in Attrs |-> Absent]

\* ------------------------------------------------- idle values
\* the credentials of a deployment whose sendgrid_configured is b
KeysFor(b) ==
    IF b THEN [api_key |-> StrV(<<"SG.key">>), from_email |-> StrV(<<"a@b.c">>)]
         ELSE [api_key |-> None, from_email |-> None]

NoDelivery == [op |-> "none", from_arg |-> None, provider |-> "none", results |-> <<>>]

\* generate_chatbot_reply has not been called; the service was built without a key
NoChat ==
    [called |-> FALSE, openai_configured |-> FALSE, first_name |-> "", message |-> {},
     llm |-> [kind |-> "not_called"], result |-> [raised |-> FALSE]]

\* no endpoint has answered yet
NoResponse == [op |-> "none", campaign |-> 0, arg |-> "", code |-> 0]

\* no file has been uploaded yet
NoUpload ==
    [file |-> [csv_name |-> TRUE, headers |-> "none", rows |-> <<>>], code |-> 0,
     valid_rows |-> 0, invalid_rows |-> 0, duplicates |-> 0, created |-> 0,
     inserts |-> <<>>]

\* the sample leads of POST /api/demo/seed have pairwise different emails
DemoEmails == [l \in LeadIds |-> l]

NoEmails == [l \in LeadIds |-> 0]

\* the requests the event loop can serve at once
Requests == 1..MaxRequests

\* no send_campaign_email call in flight
IdleWorker == [pc |-> "idle", attempt |-> 0, last |-> "none"]

IdleWorkers == [r \in Requests |-> IdleWorker]

EmptyLog == [d \in 0..MaxDay |-> 0]

\* ------------------------------------------------------------------ Init
\* the template seed_demo_data and seed_default_templates both add
InitialOutreach == [name |-> "Initial Outreach", is_default |-> TRUE, deleted |-> FALSE]

\* The process has started (limiter at 0 for the day of the start) and
\* POST /api/demo/seed has run on the empty database: the sample leads in status
\* "uploaded", the default template, one draft campaign.
Init ==
    /\ limit \in Limits
    /\ configured \in BOOLEAN
    /\ today = 0
    /\ limiter = [count |-> 0, date |-> 0]
    /\ leadStatus = [l \in LeadIds |-> "uploaded"]
    /\ campStatus = [c \in CampIds |-> "draft"]
    /\ campStarted = [c \in CampIds |-> FALSE]
    /\ campEnded = [c \in CampIds |-> FALSE]
    /\ seqs = <<>>
    /\ msgCounter = 0
    /\ pc = "idle"
    /\ queue = <<>>
    /\ results = EmptyResults
    /\ call = IdleCall
    /\ callsToday = 0
    /\ cleanToday = TRUE
    /\ templates = <<InitialOutreach>>
    /\ probe = NoProbe
    /\ template = <<>>
    /\ lead_data = EmptyLeadData
    /\ rendered = <<>>
    /\ sendgrid = KeysFor(configured)
    /\ delivery = NoDelivery
    /\ chat = NoChat
    /\ response = NoResponse
    /\ leadEmails = DemoEmails
    /\ upload = NoUpload
    /\ workers = IdleWorkers
    /\ okLog = EmptyLog

\* ------------------------------------------------- EmailSequence rows
\* EmailSequence(lead_id=..., status="pending"): the other columns are NULL
PendingSeq(lead) ==
    [lead_id |-> lead, status |-> "pending", sendgrid_message_id |-> 0,
     sent_at |-> FALSE, bounce_reason |-> -1, writes |-> 0]

\* a plausible slip: the identifier is saved, the status is not advanced
persist_message_id_only(s, sequence_id, message_id) ==
    IF sequence_id # 0 /\ sequence_id \in 1..Len(s)
    THEN [s EXCEPT ![sequence_id] =
             [@ EXCEPT !.sendgrid_message_id = message_id,
                       !.writes = @ + 1]]
    ELSE s

\* _persist_message_id, called under "if sequence_id and db"
persist_message_id(s, sequence_id, message_id) ==
    IF sequence_id # 0 /\ sequence_id \in 1..Len(s)
    THEN [s EXCEPT ![sequence_id] =
             [@ EXCEPT !.sendgrid_message_id = message_id,
                       !.status = "sent",
                       !.sent_at = TRUE,
                       !.writes = @ + 1]]
    ELSE s

\* send_result.get("error", "Send failed")[:255]
bounce_reason_of(r) ==
    Min(IF r.error = -1 THEN 11 ELSE r.error, BounceReasonMax)

\* a plausible slip: the row is marked whatever the result
mark_always(s, id, r) ==
    [s EXCEPT ![id] =
        [@ EXCEPT !.status = "bounced",
                  !.bounce_reason = bounce_reason_of(r),
                  !.writes = @ + 1]]

\* "Update sequence status if send failed"
mark_if_failed(s, id, r) ==
    IF ~r.success
    THEN [s EXCEPT ![id] =
             [@ EXCEPT !.status = "bounced",
                       !.bounce_reason = bounce_reason_of(r),
                       !.writes = @ + 1]]
    ELSE s

\* "Update lead status" and the counters, then results["details"].append(...)
\* a plausible slip: the lead is marked contacted whatever the result
lead_status_after_always(ls, lead, r) == [ls EXCEPT ![lead] = "contacted"]

\* a plausible slip: a failed send puts the leads back to their first status
lead_status_after_rollback(ls, lead, r) ==
    IF r.success THEN [ls EXCEPT ![lead] = "contacted"]
    ELSE [l \in DOMAIN ls |-> IF ls[l] = "absent" THEN "absent" ELSE "uploaded"]

\* "if send_result.get('success'): lead.status = 'contacted'"
lead_status_after(ls, lead, r) ==
    IF r.success THEN [ls EXCEPT ![lead] = "contacted"] ELSE ls

\* a plausible slip: a send that did not succeed is listed but not counted
results_after_uncounted(res, lead, r) ==
    [res EXCEPT !.emails_sent = IF r.success THEN @ + 1 ELSE @,
                !.details = Append(@, [lead_id |-> lead, success |-> r.success,
                                       message_id |-> r.message_id,
                                       error |-> r.error])]

\* the counters and the detail entry of one lead
results_after(res, lead, r) ==
    [res EXCEPT !.emails_sent = IF r.success THEN @ + 1 ELSE @,
                !.emails_failed = IF r.success THEN @ ELSE @ + 1,
                !.details = Append(@, [lead_id |-> lead, success |-> r.success,
                                       message_id |-> r.message_id,
                                       error |-> r.error])]

\* send_email: the mock backend when SendGrid is not configured, else the live one
send_email_results(mid) ==
    IF configured
    THEN {SuccessResult(mid)} \cup {FailureResult(e) : e \in ErrLens}
    ELSE {SuccessResult(mid)}

\* the orders in which SELECT ... WHERE id IN (...) may return the rows S
Orders(S) ==
    {o \in [1..Cardinality(S) -> S] : \A i, j \in 1..Cardinality(S) : o[i] = o[j] => i = j}

TemplateExists(tid) == tid \in 1..Len(templates) /\ ~templates[tid].deleted

\* ------------------------------------------------- start_campaign
\* the model stops adding rows at MaxSeqs, and at MaxLiveSeqs with the live backend,
\* whose failures make the rows vary
SeqBound == IF configured THEN MaxLiveSeqs ELSE MaxSeqs

\* what of the request start_campaign rejects before it changes anything
start_campaign_status(c, ids, tid, hasContent) ==
    IF c \notin CampIds \/ campStatus[c] = "absent" THEN 404
    ELSE IF campStatus[c] = "active" THEN 400
    ELSE IF tid # 0 /\ ~TemplateExists(tid) THEN 404
    ELSE IF tid = 0 /\ ~hasContent THEN 400
    ELSE IF {l \in ids : leadStatus[l] # "absent"} = {} THEN 400
    ELSE 200

\* the request up to the dispatch loop: campaign set active, results initialised
start_campaign(c, ids, tid, hasContent) ==
    /\ pc = "idle"
    /\ start_campaign_status(c, ids, tid, hasContent) = 200
    /\ LET leads == {l \in ids : leadStatus[l] # "absent"}
       IN  /\ Len(seqs) + Cardinality(leads) <= SeqBound
           /\ \E o \in Orders(leads) : queue' = o
           /\ results' = [EmptyResults EXCEPT !.campaign_id = c,
                                             !.total_leads = Cardinality(leads)]
    /\ campStatus' = [campStatus EXCEPT ![c] = "active"]
    /\ campStarted' = [campStarted EXCEPT ![c] = TRUE]
    /\ pc' = "next"
    /\ call' = IdleCall
    /\ response' = [op |-> "start", campaign |-> c, arg |-> "", code |-> 200]
    /\ UNCHANGED <<quietVars, leadEmails, campEnded, limit, configured, today, limiter,
                   leadStatus, seqs, msgCounter, callsToday, cleanToday, templates>>

\* a request start_campaign answers with an HTTPException
start_campaign_rejected(c, ids, tid, hasContent) ==
    /\ pc = "idle"
    /\ start_campaign_status(c, ids, tid, hasContent) # 200
    /\ response' = [op |-> "start", campaign |-> c, arg |-> "",
                    code |-> start_campaign_status(c, ids, tid, hasContent)]
    /\ UNCHANGED <<quietVars, leadEmails, campEnded, limit, configured, today, leadStatus,
                   campStatus, campStarted, templates>>
    /\ UNCHANGED dispatchVars

\* send_campaign_email has returned r for the lead at the head of the queue:
\* the rest of the loop body
LoopBodyAfterSend(lead, id, r, s, lim, c) ==
    /\ seqs' = mark_if_failed(s, id, r)
    /\ leadStatus' = lead_status_after(leadStatus, lead, r)
    /\ results' = results_after(results, lead, r)
    /\ queue' = Tail(queue)
    /\ limiter' = lim
    /\ call' = [c EXCEPT !.last_result = r, !.returned = TRUE]
    /\ cleanToday' = (cleanToday /\ c.day_before = today
                               /\ c.provider_calls = (IF r.success THEN 1 ELSE 0))
    /\ pc' = "next"

\* one iteration of "for lead in leads" up to the first provider call: the pending
\* row is added and flushed, send_campaign_email consults the limiter
start_campaign_lead ==
    /\ pc = "next"
    /\ queue # <<>>
    /\ LET lead == Head(queue)
           id == Len(seqs) + 1
           s == Append(seqs, PendingSeq(lead))
           lim == reset_if_new_day(limiter, today)
           c == [IdleCall EXCEPT !.sequence_id = id, !.limiter_checks = 1,
                                 !.count_before = lim.count, !.day_before = today,
                                 !.index_today = callsToday + 1]
       IN  IF can_send(limiter, today)
           THEN /\ seqs' = s
                /\ limiter' = lim
                /\ call' = [c EXCEPT !.attempt = 1]
                /\ pc' = "send"
                /\ UNCHANGED <<leadStatus, results, queue, cleanToday>>
           ELSE LoopBodyAfterSend(lead, id, SkippedResult, s, lim, c)
    /\ callsToday' = callsToday + 1
    /\ UNCHANGED <<unitVars, limit, configured, today, campStatus, campStarted, msgCounter,
                   templates>>

\* one pass of "for attempt in range(1, max_retries + 1)": send_email and what
\* follows it up to the next suspension
send_attempt ==
    /\ pc = "send"
    /\ \E r \in send_email_results(msgCounter + 1) :
         LET lead == Head(queue)
             c == [call EXCEPT !.provider_calls = @ + 1, !.last_result = r]
         IN  IF r.success
             THEN /\ msgCounter' = msgCounter + 1
                  /\ LoopBodyAfterSend(lead, c.sequence_id, r,
                         persist_message_id(seqs, c.sequence_id, r.message_id),
                         record_send(limiter, today),
                         [c EXCEPT !.record_sends = @ + 1])
             ELSE IF more_attempts(c.attempt)
             THEN /\ call' = c
                  /\ pc' = "sleep"
                  /\ UNCHANGED <<msgCounter, seqs, leadStatus, results, queue, limiter,
                                 cleanToday>>
             ELSE /\ LoopBodyAfterSend(lead, c.sequence_id, r, seqs, limiter, c)
                  /\ UNCHANGED msgCounter
    /\ UNCHANGED <<unitVars, limit, configured, today, campStatus, campStarted, callsToday,
                   templates>>

\* await asyncio.sleep(wait_seconds), then the next attempt
backoff_sleep ==
    /\ pc = "sleep"
    /\ call' = [call EXCEPT !.slept = @ + wait_seconds(call.attempt),
                            !.attempt = @ + 1]
    /\ pc' = "send"
    /\ UNCHANGED <<unitVars, limit, configured, today, limiter, leadStatus, campStatus,
                   campStarted, seqs, msgCounter, queue, results, callsToday, cleanToday, templates>>

\* the loop is over: await db.commit()
start_campaign_commit ==
    /\ pc = "next"
    /\ queue = <<>>
    /\ pc' = "returning"
    /\ UNCHANGED <<unitVars, limit, configured, today, limiter, leadStatus, campStatus,
                   campStarted, seqs, msgCounter, queue, results, call, callsToday,
                   cleanToday, templates>>

\* return results
start_campaign_return ==
    /\ pc = "returning"
    /\ pc' = "idle"
    /\ results' = EmptyResults
    /\ call' = IdleCall
    /\ UNCHANGED <<unitVars, limit, configured, today, limiter, leadStatus, campStatus,
                   campStarted, seqs, msgCounter, queue, callsToday, cleanToday, templates>>

\* the wall clock passes midnight
Tick ==
    /\ today < MaxDay
    /\ today' = today + 1
    /\ callsToday' = 0
    /\ cleanToday' = TRUE
    /\ UNCHANGED <<unitVars, limit, configured, limiter, leadStatus, campStatus, campStarted,
                   seqs, msgCounter, pc, queue, results, call, templates>>

\* ------------------------------------------------- leads and campaigns

\* PUT /api/leads/{id} with a status in the body: setattr(lead, "status", value)
update_lead(l, st) ==
    /\ pc = "idle"
    /\ leadStatus[l] # "absent"
    /\ leadStatus' = [leadStatus EXCEPT ![l] = st]
    /\ UNCHANGED <<unitVars, limit, configured, today, campStatus, campStarted, templates>>
    /\ UNCHANGED dispatchVars

\* POST /api/campaigns/{id}/pause
pause_campaign(c) ==
    /\ pc = "idle"
    /\ campStatus[c] = "active"
    /\ campStatus' = [campStatus EXCEPT ![c] = "paused"]
    /\ response' = [op |-> "pause", campaign |-> c, arg |-> "", code |-> 200]
    /\ UNCHANGED <<quietVars, leadEmails, campEnded, limit, configured, today, leadStatus,
                   campStarted, templates>>
    /\ UNCHANGED dispatchVars

\* ------------------------------------------------- demo simulations
\* ORDER BY created_at DESC LIMIT 1 over the lead's rows: 0 when there is none
LatestSeq(l) ==
    LET own == {i \in 1..Len(seqs) : seqs[i].lead_id = l}
    IN  IF own = {} THEN 0 ELSE CHOOSE i \in own : \A j \in own : j <= i

\* sequence.status = "opened" on the lead's most recent row
simulate_email_open(l) ==
    /\ pc = "idle"
    /\ leadStatus[l] # "absent"
    /\ LatestSeq(l) # 0
    /\ seqs' = [seqs EXCEPT ![LatestSeq(l)].status = "opened"]
    /\ UNCHANGED <<unitVars, limit, configured, today, limiter, leadStatus, campStatus,
                   campStarted, msgCounter, pc, queue, results, call, callsToday, cleanToday, templates>>

Sentiments == {"interested", "not_now", "unsubscribe", "other"}

\* status_map of simulate_email_reply
status_map(sentiment) ==
    CASE sentiment = "interested" -> "interested"
      [] sentiment = "not_now" -> "replied"
      [] sentiment = "unsubscribe" -> "closed"
      [] OTHER -> "replied"

simulate_email_reply(l, sentiment) ==
    /\ pc = "idle"
    /\ leadStatus[l] # "absent"
    /\ seqs' = IF LatestSeq(l) # 0
               THEN [seqs EXCEPT ![LatestSeq(l)].status = "replied"]
               ELSE seqs
    /\ leadStatus' = [leadStatus EXCEPT ![l] = status_map(sentiment)]
    /\ UNCHANGED <<unitVars, limit, configured, today, limiter, campStatus, campStarted,
                   msgCounter, pc, queue, results, call, callsToday, cleanToday, templates>>

simulate_booking(l) ==
    /\ pc = "idle"
    /\ leadStatus[l] # "absent"
    /\ leadStatus' = [leadStatus EXCEPT ![l] = "booked"]
    /\ UNCHANGED <<unitVars, limit, configured, today, campStatus, campStarted, templates>>
    /\ UNCHANGED dispatchVars

\* ------------------------------------------------- the dispatch specification
DispatchStep ==
    \/ \E c \in CampIds : pause_campaign(c)
    \/ \E c \in CampIds, ids \in SUBSET LeadIds \ {{}}, tid \in 0..2, h \in BOOLEAN :
         start_campaign(c, ids, tid, h)
    \/ \E c \in CampIds, ids \in SUBSET LeadIds \ {{}}, tid \in 0..2, h \in BOOLEAN :
         start_campaign_rejected(c, ids, tid, h)
    \/ start_campaign_lead
    \/ send_attempt
    \/ backoff_sleep
    \/ start_campaign_commit
    \/ start_campaign_return

Next ==
    \/ DispatchStep
    \/ Tick

Spec == Init /\ [][Next]_vars

\* ------------------------------------- dispatch with the lead and demo endpoints
LifecycleNext ==
    \/ DispatchStep
    \/ \E l \in LeadIds, st \in LeadStatusSet : update_lead(l, st)
    \/ \E l \in LeadIds : simulate_email_open(l)
    \/ \E l \in LeadIds, sn \in Sentiments : simulate_email_reply(l, sn)
    \/ \E l \in LeadIds : simulate_booking(l)

LifecycleSpec == Init /\ [][LifecycleNext]_vars

\* ------------------------------------------------- email templates
TemplateNames == {"Initial Outreach", "Custom"}

\* default_templates of seed_default_templates, in order
default_templates ==
    <<[name |-> "Initial Outreach", is_default |-> TRUE, deleted |-> FALSE],
      [name |-> "Follow Up #1", is_default |-> FALSE, deleted |-> FALSE],
      [name |-> "Market Update", is_default |-> FALSE, deleted |-> FALSE]>>

\* a deleted row: its id is not reused
Tombstone == [name |-> "", is_default |-> FALSE, deleted |-> TRUE]

LiveTemplates(ts) == {i \in 1..Len(ts) : ~ts[i].deleted}

NameExists(ts, name) == \E i \in LiveTemplates(ts) : ts[i].name = name

\* "for tmpl in result.scalars().all(): tmpl.is_default = False", but for row keep
unset_defaults(ts, keep) ==
    [i \in 1..Len(ts) |-> IF i # keep /\ ~ts[i].deleted
                          THEN [ts[i] EXCEPT !.is_default = FALSE]
                          ELSE ts[i]]

templateFrame == <<unitVars, limit, configured, today, leadStatus, campStatus, campStarted>>

\* POST /api/templates
create_template(name, is_default) ==
    /\ pc = "idle"
    /\ Len(templates) < MaxTemplates
    /\ ~NameExists(templates, name)
    /\ templates' = Append(IF is_default THEN unset_defaults(templates, 0) ELSE templates,
                           [name |-> name, is_default |-> is_default, deleted |-> FALSE])
    /\ UNCHANGED templateFrame
    /\ UNCHANGED dispatchVars

\* PUT /api/templates/{id}; "unset" stands for a field the body leaves out. A name
\* another row holds violates the unique constraint at commit: rolled back.
update_template(id, name, is_default) ==
    /\ pc = "idle"
    /\ id \in LiveTemplates(templates)
    /\ LET others == IF is_default = "true" THEN unset_defaults(templates, id) ELSE templates
           row == [others[id] EXCEPT
                     !.name = IF name = "unset" THEN @ ELSE name,
                     !.is_default = IF is_default = "unset" THEN @ ELSE is_default = "true"]
           clash == \E i \in LiveTemplates(templates) : i # id /\ templates[i].name = row.name
       IN  templates' = IF clash THEN templates ELSE [others EXCEPT ![id] = row]
    /\ UNCHANGED templateFrame
    /\ UNCHANGED dispatchVars

\* DELETE /api/templates/{id}
delete_template(id) ==
    /\ pc = "idle"
    /\ id \in LiveTemplates(templates)
    /\ templates' = [templates EXCEPT ![id] = Tombstone]
    /\ UNCHANGED templateFrame
    /\ UNCHANGED dispatchVars

RECURSIVE seed_rows(_, _)
\* the loop of seed_default_templates from default_templates[k] on: a row is added
\* for every name that no stored row has
seed_rows(ts, k) ==
    IF k > Len(default_templates) THEN ts
    ELSE seed_rows(IF NameExists(ts, default_templates[k].name)
                   THEN ts
                   ELSE Append(ts, default_templates[k]), k + 1)

\* POST /api/templates/seed/defaults
seed_default_templates ==
    /\ pc = "idle"
    /\ Len(seed_rows(templates, 1)) <= MaxTemplates
    /\ templates' = seed_rows(templates, 1)
    /\ UNCHANGED templateFrame
    /\ UNCHANGED dispatchVars

\* POST /api/demo/seed: refused when a lead exists; the sample leads, the default
\* template and a draft campaign are added in one transaction, which the unique
\* constraint on the template name rolls back as a whole
seed_demo_data ==
    /\ pc = "idle"
    /\ \A l \in LeadIds : leadStatus[l] = "absent"
    /\ Len(templates) < MaxTemplates
    /\ IF NameExists(templates, InitialOutreach.name)
       THEN UNCHANGED <<templates, leadStatus, leadEmails, campStatus>>
       ELSE /\ templates' = Append(templates, InitialOutreach)
            /\ leadStatus' = [l \in LeadIds |-> "uploaded"]
            /\ leadEmails' = DemoEmails
            /\ campStatus' = [c \in CampIds |-> "draft"]
    /\ UNCHANGED <<quietVars, response, limit, configured, today, campStarted, campEnded>>
    /\ UNCHANGED dispatchVars

\* POST /api/demo/reset?confirm=true
reset_demo_data ==
    /\ pc = "idle"
    /\ templates' = <<>>
    /\ leadStatus' = [l \in LeadIds |-> "absent"]
    /\ leadEmails' = NoEmails
    /\ campStatus' = [c \in CampIds |-> "absent"]
    /\ campStarted' = [c \in CampIds |-> FALSE]
    /\ campEnded' = [c \in CampIds |-> FALSE]
    /\ seqs' = <<>>
    /\ UNCHANGED <<quietVars, response, limit, configured, today, limiter, msgCounter, pc, queue,
                   results, call, callsToday, cleanToday>>

\* the empty database of a fresh deployment
InitEmpty ==
    /\ limit \in Limits
    /\ configured \in BOOLEAN
    /\ today = 0
    /\ limiter = [count |-> 0, date |-> 0]
    /\ leadStatus = [l \in LeadIds |-> "absent"]
    /\ campStatus = [c \in CampIds |-> "absent"]
    /\ campStarted = [c \in CampIds |-> FALSE]
    /\ campEnded = [c \in CampIds |-> FALSE]
    /\ seqs = <<>>
    /\ msgCounter = 0
    /\ pc = "idle"
    /\ queue = <<>>
    /\ results = EmptyResults
    /\ call = IdleCall
    /\ callsToday = 0
    /\ cleanToday = TRUE
    /\ templates = <<>>
    /\ probe = NoProbe
    /\ template = <<>>
    /\ lead_data = EmptyLeadData
    /\ rendered = <<>>
    /\ sendgrid = KeysFor(configured)
    /\ delivery = NoDelivery
    /\ chat = NoChat
    /\ response = NoResponse
    /\ leadEmails = NoEmails
    /\ upload = NoUpload
    /\ workers = IdleWorkers
    /\ okLog = EmptyLog

UpdateFlags == {"unset", "true", "false"}

TemplateNext ==
    \/ \E n \in TemplateNames, d \in BOOLEAN : create_template(n, d)
    \/ \E id \in 1..MaxTemplates, n \in TemplateNames \cup {"unset"}, d \in UpdateFlags :
         update_template(id, n, d)
    \/ \E id \in 1..MaxTemplates : delete_template(id)
    \/ seed_default_templates
    \/ seed_demo_data
    \/ reset_demo_data

TemplateSpec == InitEmpty /\ [][TemplateNext]_vars

\* =================================================================== claims
\* the row of the send_campaign_email call in flight or last returned
CallRow == seqs[call.sequence_id]

\* the limiter after a call that recorded one send: one more than the call found,
\* counted from 0 when midnight passed between its can_send and its record_send
CountAfterOneSend ==
    IF limiter.date = call.day_before THEN call.count_before + 1 ELSE 1

\* C1: with a daily limit of 2 and a provider that always succeeds, of the calls
\* of one day the first and the second are sent and counted, the third is
\* skipped by the limit without a provider call and the count stays at 2.
C1_ThirdCallSkippedByLimit ==
    (limit = 2 /\ cleanToday /\ call.returned /\ call.day_before = today) =>
        /\ call.index_today = 1 =>
             call.last_result.success /\ call.provider_calls = 1 /\ limiter.count = 1
        /\ call.index_today = 2 =>
             call.last_result.success /\ call.provider_calls = 1 /\ limiter.count = 2
        /\ call.index_today = 3 =>
             /\ ~call.last_result.success
             /\ call.last_result.skipped
             /\ call.provider_calls = 0
             /\ limiter.count = 2

C1_Witness ==
    /\ limit = 2 /\ cleanToday /\ call.returned /\ call.day_before = today
    /\ call.index_today = 3
    /\ call.last_result.skipped
    /\ limiter.count = 2

\* C2: when the limit is reached, the loop consults the limiter once, calls the
\* provider not at all, and the lead is neither counted in emails_failed nor is
\* its row put into the status "bounced".
C2_SkipIsNotAFailure ==
    [][(pc = "next" /\ queue # <<>> /\ ~can_send(limiter, today)
          /\ Len(seqs') = Len(seqs) + 1)
       => /\ call'.limiter_checks = 1
          /\ call'.provider_calls = 0
          /\ call'.slept = 0
          /\ results'.emails_failed = results.emails_failed
          /\ seqs'[Len(seqs')].status # "bounced"]_vars

C4_AllAttemptsFailed ==
    (call.returned /\ ~call.last_result.success /\ ~call.last_result.skipped) =>
        /\ call.provider_calls = 3
        /\ CallRow.status = "bounced"
        /\ CallRow.bounce_reason > 0
        /\ CallRow.bounce_reason <= 255
        /\ call.record_sends = 0
        /\ limiter.date = call.day_before => limiter.count = call.count_before

\* C5: a row has a provider message identifier exactly when its status is one
\* of sent, opened, replied.
C5_MessageIdIffSent ==
    \A i \in 1..Len(seqs) :
        (seqs[i].sendgrid_message_id # 0) <=> (seqs[i].status \in {"sent", "opened", "replied"})

SleptBefore(k) == CASE k = 1 -> 0 [] k = 2 -> 1 [] k = 3 -> 3 [] OTHER -> -1

\* C7: at most 3 provider calls for a message, none after a success, a sleep of
\* 1 s then 2 s only between a failed attempt and the next one, none after the
\* last attempt.
C7_RetryPolicy ==
    /\ call.provider_calls <= 3
    /\ call.last_result.success => call.returned
    /\ pc = "send" =>
         call.provider_calls = call.attempt - 1 /\ call.slept = SleptBefore(call.attempt)
    /\ pc = "sleep" =>
         /\ ~call.last_result.success
         /\ call.provider_calls = call.attempt
         /\ call.attempt < 3
         /\ call.slept = SleptBefore(call.attempt)
    /\ (call.returned /\ call.provider_calls > 0) =>
         call.slept = SleptBefore(call.provider_calls)
    /\ (call.returned /\ call.provider_calls = 0) => call.slept = 0

C7_Witness ==
    /\ call.returned /\ ~call.last_result.success
    /\ call.provider_calls = 3 /\ call.slept = 3

C9_AtMostOneDefault ==
    Cardinality({i \in LiveTemplates(templates) : templates[i].is_default}) <= 1

\* position of a status in the funnel
Rank(st) == CHOOSE i \in 1..Len(LeadStatuses) : LeadStatuses[i] = st

\* C10: no operation moves a lead to an earlier status of
\* uploaded -> contacted -> replied -> interested -> booked -> closed.
C10_StatusOnlyForward ==
    [][\A l \in LeadIds :
         (leadStatus[l] # "absent" /\ leadStatus'[l] # "absent")
            => Rank(leadStatus'[l]) >= Rank(leadStatus[l])]_vars

\* a start_campaign request is between its first lead and its return
InBatch == pc \in {"next", "send", "sleep", "returning"}

\* C11: a step of start_campaign changes a lead's status only when that lead's
\* send has just returned success; when the send of a lead ends without success
\* after all attempts, its row becomes "bounced" and no lead status changes.
C11_FailureLeavesLeadStatus ==
    [][/\ \A l \in LeadIds :
            leadStatus'[l] # leadStatus[l] =>
                /\ pc = "send" /\ Head(queue) = l
                /\ call'.returned /\ call'.last_result.success
       /\ (pc = "send" /\ call'.returned /\ ~call'.last_result.success) =>
            /\ leadStatus' = leadStatus
            /\ seqs'[call.sequence_id].status = "bounced"
            /\ \A i \in 1..Len(seqs) : i # call.sequence_id => seqs'[i] = seqs[i]]_vars

C11_Witness ==
    /\ call.returned /\ ~call.last_result.success /\ ~call.last_result.skipped
    /\ call.provider_calls = 3
    /\ CallRow.status = "bounced"
    /\ leadStatus[CallRow.lead_id] = "uploaded"
    /\ \E l \in LeadIds : leadStatus[l] = "contacted"

\* the leads of the details of the summary, then those still to be processed
BatchLeads == [i \in 1..Len(results.details) |-> results.details[i].lead_id] \o queue

\* C12: through the batch the summary has one detail entry per processed lead,
\* emails_sent counts the entries with success, emails_failed the others, and
\* processed and remaining leads are the total_leads distinct targeted leads; at
\* the return emails_sent + emails_failed = total_leads = number of details.
C12_SummaryCounts ==
    InBatch =>
        LET d == results.details
            ok == {i \in 1..Len(d) : d[i].success}
        IN  /\ results.emails_sent = Cardinality(ok)
            /\ results.emails_failed = Len(d) - Cardinality(ok)
            /\ Len(BatchLeads) = results.total_leads
            /\ \A i, j \in 1..Len(BatchLeads) : BatchLeads[i] = BatchLeads[j] => i = j
            /\ pc = "returning" =>
                 /\ results.emails_sent + results.emails_failed = results.total_leads
                 /\ results.total_leads = Len(d)

C12_Witness ==
    /\ pc = "returning"
    /\ results.total_leads = 2
    /\ results.emails_sent = 1 /\ results.emails_failed = 1
    /\ Len(results.details) = 2

\* the row start_campaign created for the i-th detail entry of the batch
DetailRow(i) ==
    LET inflight == IF pc \in {"send", "sleep"} THEN 1 ELSE 0
    IN  seqs[Len(seqs) - inflight - Len(results.details) + i]

sent_today_stale(lim, t) == [limiter |-> lim, value |-> lim.count]

sent_today(lim, t) ==
    LET l == reset_if_new_day(lim, t)
    IN  [limiter |-> l, value |-> l.count]

\* the remaining_today property
remaining_today(lim, t) ==
    LET l == reset_if_new_day(lim, t)
    IN  [limiter |-> l,
         value |-> IF limit <= 0 THEN 999999
                   ELSE IF limit - l.count > 0 THEN limit - l.count ELSE 0]

limiterFrame ==
    <<limit, configured, today, leadStatus, campStatus, campStarted, seqs, msgCounter,
      pc, queue, results, call, callsToday, cleanToday, templates, template, lead_data,
      rendered, serviceVars, response, leadEmails, campEnded>>

\* _daily_limiter.can_send()
limiter_can_send ==
    /\ limiter' = reset_if_new_day(limiter, today)
    /\ probe' = [op |-> "can_send", ok |-> can_send(limiter, today), value |-> 0,
                 before |-> limiter, day |-> today]
    /\ UNCHANGED limiterFrame

\* _daily_limiter.record_send()
limiter_record_send ==
    /\ reset_if_new_day(limiter, today).count < MaxCount
    /\ limiter' = record_send(limiter, today)
    /\ probe' = [op |-> "record_send", ok |-> TRUE, value |-> 0,
                 before |-> limiter, day |-> today]
    /\ UNCHANGED limiterFrame

\* _daily_limiter.sent_today
read_sent_today ==
    /\ limiter' = sent_today(limiter, today).limiter
    /\ probe' = [op |-> "sent_today", ok |-> TRUE,
                 value |-> sent_today(limiter, today).value,
                 before |-> limiter, day |-> today]
    /\ UNCHANGED limiterFrame

\* _daily_limiter.remaining_today
read_remaining_today ==
    /\ limiter' = remaining_today(limiter, today).limiter
    /\ probe' = [op |-> "remaining_today", ok |-> TRUE,
                 value |-> remaining_today(limiter, today).value,
                 before |-> limiter, day |-> today]
    /\ UNCHANGED limiterFrame

LimiterNext ==
    \/ limiter_can_send
    \/ limiter_record_send
    \/ read_sent_today
    \/ read_remaining_today
    \/ Tick

LimiterSpec == Init /\ [][LimiterNext]_vars

\* C14: with the limit 0, can_send() answers true after any number of
\* record_send() calls.
C14_LimitZeroIsUnlimited ==
    limit = 0 =>
        /\ can_send(limiter, today)
        /\ probe.op = "can_send" => probe.ok

C14_Witness ==
    /\ limit = 0
    /\ probe.op = "can_send" /\ probe.ok
    /\ probe.before.count = 3 /\ probe.before.date = probe.day

\* C15: a can_send() or record_send() called when the day is past the marker
\* resets first: after can_send() the count is 0, the marker is the day of the
\* call and the answer is true for a positive limit; after record_send() the
\* count is 1 and the marker is the day of the call.
C15_ResetOnNewDay ==
    probe.before.date < probe.day =>
        /\ probe.op = "can_send" =>
             /\ limiter = [count |-> 0, date |-> probe.day]
             /\ limit > 0 => probe.ok
        /\ probe.op = "record_send" =>
             limiter = [count |-> 1, date |-> probe.day]

C15_Witness ==
    /\ probe.op = "record_send"
    /\ probe.before = [count |-> 3, date |-> 0]
    /\ probe.day = 1
    /\ limiter = [count |-> 1, date |-> 1]

IsRead == probe.op \in {"sent_today", "remaining_today"}

\* C16 as stated: reading remaining_today or sent_today never changes the
\* limiter's count or its day marker.
C16_ReadsChangeNothing == IsRead => limiter = probe.before

\* C16 amended: a read leaves count and marker as they are when the marker is the
\* day of the read; when the day is past the marker the read itself resets the
\* count to 0 and moves the marker to the day of the read, and it reports the
\* value for that day; what can_send() and record_send() do next is as without
\* the read.
C16_ReadsResetOnlyOnNewDay ==
    IsRead =>
        /\ can_send(limiter, today) = can_send(probe.before, today)
        /\ record_send(limiter, today) = record_send(probe.before, today)
        /\ probe.before.date = probe.day => limiter = probe.before
        /\ probe.before.date # probe.day => limiter = [count |-> 0, date |-> probe.day]
        /\ probe.op = "sent_today" => probe.value = limiter.count
        /\ (probe.op = "remaining_today" /\ limit > 0 /\ limiter.count <= limit) =>
             probe.value = limit - limiter.count

C16_Witness ==
    /\ probe.op = "sent_today"
    /\ probe.before = [count |-> 2, date |-> 0]
    /\ probe.day = 1
    /\ limiter = [count |-> 0, date |-> 1]
    /\ probe.value = 0

\* ======================================================== personalize_template
\* the keys of the placeholders dict, in the order the loop visits them
placeholder_names_with_company ==
    <<"first_name", "last_name", "email", "phone", "address", "property_type",
      "estimated_value", "lead_id", "full_name", "company">>

placeholder_names ==
    <<"first_name", "last_name", "email", "phone", "address", "property_type",
      "estimated_value", "lead_id", "full_name">>

\* the text "{{name}}"
Token(name) == <<"{", "{", name, "}", "}">>

\* lead_data.get(k, "")
get(d, k) == IF k \in DOMAIN d /\ d[k].kind # "absent" THEN d[k] ELSE StrV(<<>>)

Digits == <<"0", "1", "2", "3", "4", "5", "6", "7", "8", "9">>

\* str(v), for the integers 0..9
py_str(v) ==
    CASE v.kind = "str" -> v.s
      [] v.kind = "none" -> <<"None">>
      [] v.kind = "int" -> <<Digits[v.n + 1]>>
      [] OTHER -> <<>>

\* the truth value of v in "str(value) if value else ''"
py_bool(v) ==
    CASE v.kind = "str" -> v.s # <<>>
      [] v.kind = "int" -> v.n # 0
      [] OTHER -> FALSE

RECURSIVE lstrip(_)
lstrip(s) == IF s # <<>> /\ Head(s) = " " THEN lstrip(Tail(s)) ELSE s

RECURSIVE rstrip(_)
rstrip(s) ==
    IF s # <<>> /\ s[Len(s)] = " " THEN rstrip(SubSeq(s, 1, Len(s) - 1)) ELSE s

\* a plausible slip: .strip() left out
strip_missing(s) == s

\* str.strip()
strip(s) == rstrip(lstrip(s))

\* f"{first_name} {last_name}".strip()
full_name_value(d) ==
    strip(py_str(get(d, "first_name")) \o <<" ">> \o py_str(get(d, "last_name")))

\* the value the placeholders dict holds for a key
placeholder_value(d, name) ==
    CASE name = "lead_id" -> StrV(py_str(get(d, "lead_id")))
      [] name = "full_name" -> StrV(full_name_value(d))
      [] OTHER -> get(d, name)

\* str(value) if value else ""
replacement(d, name) ==
    LET v == placeholder_value(d, name)
    IN  IF py_bool(v) THEN py_str(v) ELSE <<>>

\* str.replace(old, new): the occurrences of old from the left, not overlapping
RECURSIVE replace(_, _, _)
replace(s, old, new) ==
    IF Len(s) < Len(old) THEN s
    ELSE IF SubSeq(s, 1, Len(old)) = old
         THEN new \o replace(SubSeq(s, Len(old) + 1, Len(s)), old, new)
         ELSE <<Head(s)>> \o replace(Tail(s), old, new)

\* "for placeholder, value in placeholders.items()" from the i-th key on
RECURSIVE personalize_from(_, _, _)
personalize_from(t, d, i) ==
    IF i > Len(placeholder_names) THEN t
    ELSE personalize_from(
             replace(t, Token(placeholder_names[i]), replacement(d, placeholder_names[i])),
             d, i + 1)

personalize_template(t, d) == personalize_from(t, d, 1)

\* the atoms \w does not match
NonWord == {"{", "}", " ", "a@b.c"}

\* a plausible slip: re.match for re.findall, the pattern is tried at the start only
extract_at_start(t) ==
    {SubSeq(t, 3, j) : j \in {j \in 3..Len(t) :
        /\ j + 2 <= Len(t)
        /\ t[1] = "{" /\ t[2] = "{"
        /\ \A k \in 3..j : t[k] \notin NonWord
        /\ t[j + 1] = "}" /\ t[j + 2] = "}"}}

\* re.findall(r'\{\{(\w+)\}\}', template), as the set of the names found
extract_placeholders(t) ==
    UNION {{SubSeq(t, i + 2, j) : j \in {j \in (i + 2)..Len(t) :
               /\ j + 2 <= Len(t)
               /\ t[i] = "{" /\ t[i + 1] = "{"
               /\ \A k \in (i + 2)..j : t[k] \notin NonWord
               /\ t[j + 1] = "}" /\ t[j + 2] = "}"}} : i \in 1..Len(t)}

\* ------------------------------------------------- the arguments drawn
TokenNames ==
    {"first_name", "last_name", "email", "phone", "address", "property_type",
     "estimated_value", "lead_id", "full_name", "company"}

Parts == {Token(n) : n \in TokenNames} \cup {<<"{">>, <<"Hi">>}

RECURSIVE Concat(_)
Concat(ps) == IF ps = <<>> THEN <<>> ELSE Head(ps) \o Concat(Tail(ps))

Templates == {Concat(ps) : ps \in UNION {[1..k -> Parts] : k \in 0..MaxParts}}

FirstNames == {Absent, None, StrV(<<"Ann">>), StrV(Token("email"))}
LastNames == {Absent, None, StrV(<<>>), StrV(<<"Lee">>), StrV(Token("first_name"))}
Emails == {StrV(<<"a@b.c">>)}
LeadIdValues == {Absent, None, IntV(7)}
OtherValues == {None, StrV(<<"x">>), IntV(0)}

LeadDatas ==
    {[a \in Attrs |-> CASE a = "first_name" -> f
                        [] a = "last_name" -> l
                        [] a = "email" -> e
                        [] a = "lead_id" -> i
                        [] OTHER -> o] :
        f \in FirstNames, l \in LastNames, e \in Emails, i \in LeadIdValues,
        o \in OtherValues}

personalizeFrame ==
    <<limit, configured, today, limiter, leadStatus, campStatus, campStarted, seqs,
      msgCounter, pc, queue, results, call, callsToday, cleanToday, templates, probe,
      template, lead_data, serviceVars, response, leadEmails, campEnded>>

\* personalize_template(template, lead_data)
personalize ==
    /\ rendered = <<>>
    /\ rendered' = <<personalize_template(template, lead_data)>>
    /\ UNCHANGED personalizeFrame

\* personalize_template applied to the text it returned
personalize_again ==
    /\ Len(rendered) = 1
    /\ rendered' = Append(rendered, personalize_template(rendered[1], lead_data))
    /\ UNCHANGED personalizeFrame

\* a template and a lead dict are given, nothing else has happened
PersonalizeInit ==
    /\ limit = 2
    /\ configured = FALSE
    /\ today = 0
    /\ limiter = [count |-> 0, date |-> 0]
    /\ leadStatus = [l \in LeadIds |-> "uploaded"]
    /\ campStatus = [c \in CampIds |-> "draft"]
    /\ campStarted = [c \in CampIds |-> FALSE]
    /\ campEnded = [c \in CampIds |-> FALSE]
    /\ seqs = <<>>
    /\ msgCounter = 0
    /\ pc = "idle"
    /\ queue = <<>>
    /\ results = EmptyResults
    /\ call = IdleCall
    /\ callsToday = 0
    /\ cleanToday = TRUE
    /\ templates = <<InitialOutreach>>
    /\ probe = NoProbe
    /\ template \in Templates
    /\ lead_data \in LeadDatas
    /\ rendered = <<>>
    /\ sendgrid = KeysFor(configured)
    /\ delivery = NoDelivery
    /\ chat = NoChat
    /\ response = NoResponse
    /\ leadEmails = DemoEmails
    /\ upload = NoUpload
    /\ workers = IdleWorkers
    /\ okLog = EmptyLog

PersonalizeNext ==
    \/ personalize
    \/ personalize_again

PersonalizeSpec == PersonalizeInit /\ [][PersonalizeNext]_vars

\* the nine supported placeholder names
SupportedNames ==
    {"first_name", "last_name", "full_name", "email", "phone", "address",
     "property_type", "estimated_value", "lead_id"}

\* the string value of an attribute, empty when it is absent or null
TextOf(v) ==
    CASE v.kind = "str" -> v.s
      [] v.kind = "int" -> <<Digits[v.n + 1]>>
      [] OTHER -> <<>>

FirstText == TextOf(lead_data["first_name"])
LastText == TextOf(lead_data["last_name"])

\* first and last name joined by one blank, without a blank at either end
JoinedName ==
    IF FirstText = <<>> THEN LastText
    ELSE IF LastText = <<>> THEN FirstText
    ELSE FirstText \o <<" ">> \o LastText

\* C17: a template that is exactly one supported token renders as the string
\* value of the attribute, and as the empty text when the attribute is absent
\* or null.
C17_TokenRendersAttribute ==
    \A n \in SupportedNames :
        (template = Token(n) /\ rendered # <<>>) =>
            rendered[1] = IF n = "full_name" THEN JoinedName ELSE TextOf(lead_data[n])

C19_Idempotent ==
    (/\ Len(rendered) = 2
     /\ \A n \in SupportedNames : <<n>> \notin extract_placeholders(rendered[1])) =>
        rendered[2] = rendered[1]

C19_Witness ==
    /\ Len(rendered) = 2
    /\ template = <<"Hi">> \o Token("first_name")
    /\ rendered[1] = <<"Hi", "Ann">>
    /\ rendered[2] = rendered[1]

\* C20: a template without a supported token, whatever unknown tokens and other
\* text it holds, is returned as it is; a {{company}} at the front of a template
\* stays in front of the rendering of the rest.
C20_UnknownTokensVerbatim ==
    rendered # <<>> =>
        /\ (\A n \in SupportedNames : <<n>> \notin extract_placeholders(template)) =>
             rendered[1] = template
        /\ (Len(template) >= 5 /\ SubSeq(template, 1, 5) = Token("company")) =>
             rendered[1] = Token("company")
                 \o personalize_template(SubSeq(template, 6, Len(template)), lead_data)

C20_Witness ==
    /\ template = Token("company") \o Token("first_name")
    /\ lead_data["first_name"] = StrV(<<"Ann">>)
    /\ rendered # <<>>
    /\ rendered[1] = Token("company") \o <<"Ann">>

\* ===================================================== send_email, the backends
MaxDirect == 3
MaxBulk == 2

\* what the environment can hold for a credential: unset, empty, a value
KeyValues(v) == {None, StrV(<<>>), StrV(<<v>>)}

KeySettings ==
    {[api_key |-> k, from_email |-> f] : k \in KeyValues("SG.key"), f \in KeyValues("a@b.c")}

\* a plausible slip: the sender address is not looked at
sendgrid_configured_key_only(keys) == py_bool(keys.api_key)

\* Settings.sendgrid_configured: bool(SENDGRID_API_KEY and SENDGRID_FROM_EMAIL)
sendgrid_configured(keys) == py_bool(keys.api_key) /\ py_bool(keys.from_email)

\* the provider was not called
NotCalled == [kind |-> "not_called", site |-> "none", header |-> FALSE, errLen |-> -1]

\* What the provider library can do inside _send_via_sendgrid: raise at the
\* import, while the Mail is built, or in sg.send (a 4xx/5xx answer raises too);
\* or answer with or without an X-Message-Id header.
ProviderOutcomes ==
    {[kind |-> "accepted", site |-> "none", header |-> h, errLen |-> -1] : h \in BOOLEAN}
    \cup {[kind |-> "raised", site |-> st, header |-> FALSE, errLen |-> e] :
            st \in {"import", "Mail", "send"}, e \in ErrLens}

\* _send_mock: message_id = "mock_" + uuid, success True, mode "mock"
send_mock(mid) ==
    [success |-> TRUE, message_id |-> mid, id_from |-> "mock_uuid", error |-> -1,
     mode |-> "mock", raised |-> FALSE]

\* a plausible slip: only sg.send is inside the try
send_via_sendgrid_narrow_try(o, mid) ==
    IF o.kind = "raised"
    THEN [success |-> FALSE, message_id |-> 0, id_from |-> "none",
          error |-> IF o.site = "send" THEN o.errLen ELSE -1,
          mode |-> "sendgrid", raised |-> o.site # "send"]
    ELSE [success |-> TRUE, message_id |-> mid,
          id_from |-> IF o.header THEN "X-Message-Id" ELSE "sg_uuid", error |-> -1,
          mode |-> "sendgrid", raised |-> FALSE]

\* _send_via_sendgrid: the whole body is inside try / except Exception; the
\* failure dict has the keys success, error, mode, timestamp; the success dict
\* takes the X-Message-Id header, or "sg_" + uuid when the header is missing
send_via_sendgrid(o, mid) ==
    IF o.kind = "raised"
    THEN [success |-> FALSE, message_id |-> 0, id_from |-> "none", error |-> o.errLen,
          mode |-> "sendgrid", raised |-> FALSE]
    ELSE [success |-> TRUE, message_id |-> mid,
          id_from |-> IF o.header THEN "X-Message-Id" ELSE "sg_uuid", error |-> -1,
          mode |-> "sendgrid", raised |-> FALSE]

\* send_email: routes on settings.sendgrid_configured; the from_email argument
\* only replaces the sender address handed to the backend
send_email(keys, o, mid) ==
    IF sendgrid_configured(keys) THEN send_via_sendgrid(o, mid) ELSE send_mock(mid)

\* the provider outcomes send_email can meet under the given credentials
OutcomesFor(keys) == IF sendgrid_configured(keys) THEN ProviderOutcomes ELSE {NotCalled}

backendFrame ==
    <<limit, configured, today, limiter, leadStatus, campStatus, campStarted, seqs, pc,
      queue, results, call, callsToday, cleanToday, templates, probe, template, lead_data,
      rendered, sendgrid, chat, response, leadEmails, upload, workers, okLog, campEnded>>

\* the number of identifiers a list of results has consumed
RECURSIVE IdsIn(_)
IdsIn(rs) ==
    IF rs = <<>> THEN 0
    ELSE (IF Head(rs).message_id # 0 THEN 1 ELSE 0) + IdsIn(Tail(rs))

\* await email_service.send_email(to, subject, body, from_email)
send_email_call(from_arg, o) ==
    /\ msgCounter < MaxDirect
    /\ o \in OutcomesFor(sendgrid)
    /\ LET r == send_email(sendgrid, o, msgCounter + 1)
       IN  /\ delivery' = [op |-> "send_email", from_arg |-> from_arg, provider |-> o,
                           results |-> <<r>>]
           /\ msgCounter' = msgCounter + IdsIn(<<r>>)
    /\ UNCHANGED backendFrame

\* the loop of send_bulk over the recipients, os[i] the provider's behaviour at
\* the i-th one
RECURSIVE bulk_details(_, _, _)
bulk_details(keys, os, mid) ==
    IF os = <<>> THEN <<>>
    ELSE LET r == send_email(keys, Head(os), mid + 1)
         IN  <<r>> \o bulk_details(keys, Tail(os), mid + IdsIn(<<r>>))

\* await email_service.send_bulk(emails, subject_template, body_template)
send_bulk_call(os) ==
    /\ msgCounter + Len(os) <= MaxDirect
    /\ \A i \in 1..Len(os) : os[i] \in OutcomesFor(sendgrid)
    /\ LET rs == bulk_details(sendgrid, os, msgCounter)
       IN  /\ delivery' = [op |-> "send_bulk", from_arg |-> None, provider |-> NotCalled,
                           results |-> rs]
           /\ msgCounter' = msgCounter + IdsIn(rs)
    /\ UNCHANGED backendFrame

BulkOutcomes == UNION {[1..n -> ProviderOutcomes \cup {NotCalled}] : n \in 0..MaxBulk}

\* a deployment with any combination of the two credentials
BackendInit ==
    /\ limit = 2
    /\ sendgrid \in KeySettings
    /\ configured = sendgrid_configured(sendgrid)
    /\ today = 0
    /\ limiter = [count |-> 0, date |-> 0]
    /\ leadStatus = [l \in LeadIds |-> "uploaded"]
    /\ campStatus = [c \in CampIds |-> "draft"]
    /\ campStarted = [c \in CampIds |-> FALSE]
    /\ campEnded = [c \in CampIds |-> FALSE]
    /\ seqs = <<>>
    /\ msgCounter = 0
    /\ pc = "idle"
    /\ queue = <<>>
    /\ results = EmptyResults
    /\ call = IdleCall
    /\ callsToday = 0
    /\ cleanToday = TRUE
    /\ templates = <<InitialOutreach>>
    /\ probe = NoProbe
    /\ template = <<>>
    /\ lead_data = EmptyLeadData
    /\ rendered = <<>>
    /\ delivery = NoDelivery
    /\ chat = NoChat
    /\ response = NoResponse
    /\ leadEmails = DemoEmails
    /\ upload = NoUpload
    /\ workers = IdleWorkers
    /\ okLog = EmptyLog

BackendNext ==
    \/ \E f \in {None, StrV(<<"x@y.z">>)}, o \in ProviderOutcomes \cup {NotCalled} :
         send_email_call(f, o)
    \/ \E os \in BulkOutcomes : send_bulk_call(os)

BackendSpec == BackendInit /\ [][BackendNext]_vars

\* a credential holds a non-empty value
IsSet(v) == v.kind = "str" /\ v.s # <<>>

DeliveryResults == {delivery.results[i] : i \in 1..Len(delivery.results)}

\* C21: send_email answers from the mock backend exactly when the API key and
\* the sender address are not both set, and an answer of the mock backend is a
\* success with a message identifier and mode "mock".
C21_MockIffNotConfigured ==
    \A r \in DeliveryResults :
        /\ (r.mode = "mock") <=> ~(IsSet(sendgrid.api_key) /\ IsSet(sendgrid.from_email))
        /\ r.mode \in {"mock", "sendgrid"}
        /\ r.mode = "mock" => r.success /\ r.message_id # 0 /\ ~r.raised

\* the key is set, the sender address is not, and send_email answered from the mock
C21_Witness ==
    /\ IsSet(sendgrid.api_key)
    /\ ~IsSet(sendgrid.from_email)
    /\ delivery.op = "send_email"
    /\ delivery.from_arg # None
    /\ delivery.results[1].mode = "mock"

\* C22: the live backend never raises: a provider call that raised gives a
\* result with success false, the text of the exception and no message
\* identifier, and every success result carries a message identifier.
C22_LiveNeverRaises ==
    delivery.op = "send_email" /\ delivery.results[1].mode = "sendgrid" =>
        LET r == delivery.results[1]
        IN  /\ ~r.raised
            /\ delivery.provider.kind = "raised" =>
                   ~r.success /\ r.error = delivery.provider.errLen /\ r.message_id = 0
            /\ r.success => r.message_id # 0

\* building the Mail raised inside the live backend and a failure dict came back
C22_Witness ==
    /\ delivery.op = "send_email"
    /\ delivery.provider.kind = "raised"
    /\ delivery.provider.site = "Mail"
    /\ delivery.results[1].mode = "sendgrid"
    /\ ~delivery.results[1].success

\* ===================================================== AIService, the chatbot
\* the next_action types the callers of the chatbot understand
AllowedTypes == {"continue", "book_meeting", "escalate_human", "end"}

\* _safe_next_action_type: value if value in allowed else "continue"
safe_next_action_type(value) == IF value \in AllowedTypes THEN value ELSE "continue"

\* a reply the code spells out, with the name it greets
Fixed(id, name) == [kind |-> "fixed", id |-> id, text |-> name]

\* a reply taken from the text the provider returned
Provider(text) == [kind |-> "provider", id |-> "llm", text |-> text]

\* the call raised out of the function
Raised == [raised |-> TRUE, reply |-> Fixed("none", ""), type |-> "none"]

Reply(r, t) == [raised |-> FALSE, reply |-> r, type |-> t]

\* What chat.completions.create and the parse of its answer can give: an
\* exception; a text that is not JSON (possibly empty); JSON that is not an
\* object; an object, empty or not, whose reply and next_action may be missing,
\* whose next_action may be a string, whose type may be anything.
LlmOutcomes ==
    {[kind |-> "raised"]}
    \cup {[kind |-> "text", text |-> t] : t \in {"", "Sure, happy to help", "As an AI"}}
    \cup {[kind |-> "json_other", text |-> "[1]"]}
    \cup {[kind |-> "json", text |-> "{}", empty |-> TRUE, reply |-> "",
           next_action |-> "absent", type |-> "absent"]}
    \cup {[kind |-> "json", text |-> "{..}", empty |-> FALSE, reply |-> r,
           next_action |-> n, type |-> "absent"] :
            r \in {"", "Glad to"}, n \in {"absent", "string"}}
    \cup {[kind |-> "json", text |-> "{..}", empty |-> FALSE, reply |-> r,
           next_action |-> "dict", type |-> t] :
            r \in {"", "Glad to"}, t \in AllowedTypes \cup {"absent", "upsell", "unhashable"}}

\* _parse_ai_json: the object, or None for anything else
parse_ai_json(o) == IF o.kind = "json" THEN o ELSE None

\* _openai_chatbot_json after the request: "if not parsed" is true for None and
\* for the empty object; next_action.get raises on a string; "value in allowed"
\* raises on an unhashable value
openai_chatbot_json(o) ==
    IF o.kind = "raised" THEN Raised
    ELSE IF parse_ai_json(o) = None \/ o.empty
    THEN Reply(IF o.text # "" THEN Provider(o.text) ELSE Fixed("share_challenge", ""),
               "continue")
    ELSE IF o.next_action = "string" \/ o.type = "unhashable" THEN Raised
    ELSE Reply(IF o.reply # "" THEN Provider(o.reply) ELSE Fixed("biggest_challenge", ""),
               safe_next_action_type(o.type))

\* the words generate_chatbot_reply looks for in the last user message
Intents == {"price", "demo", "frustrated", "done"}

\* the demo branch: pricing, then demo / call, then frustration, then the end
demo_reply(name, message) ==
    IF "price" \in message THEN Reply(Fixed("demo_pricing", ""), "continue")
    ELSE IF "demo" \in message THEN Reply(Fixed("demo_book", ""), "book_meeting")
    ELSE IF "frustrated" \in message THEN Reply(Fixed("demo_handoff", ""), "escalate_human")
    ELSE IF "done" \in message THEN Reply(Fixed("demo_end", ""), "end")
    ELSE Reply(Fixed("demo_base", name), "continue")

\* the deterministic replies after the try: demo / call, then pricing
fallback_reply(name, message) ==
    IF "demo" \in message THEN Reply(Fixed("fallback_book", ""), "book_meeting")
    ELSE IF "price" \in message THEN Reply(Fixed("fallback_pricing", ""), "continue")
    ELSE Reply(Fixed("fallback_qualify", name), "continue")

\* generate_chatbot_reply: first_name = lead_context.get("first_name") or "there"
generate_chatbot_reply(openai, first_name, message, o) ==
    LET name == IF first_name # "" THEN first_name ELSE "there"
    IN  IF ~openai THEN demo_reply(name, message)
        ELSE LET r == openai_chatbot_json(o)
             IN  IF r.raised THEN fallback_reply(name, message) ELSE r

chatFrame ==
    <<limit, configured, today, limiter, leadStatus, campStatus, campStarted, seqs,
      msgCounter, pc, queue, results, call, callsToday, cleanToday, templates, probe,
      template, lead_data, rendered, sendgrid, delivery, response, leadEmails, upload,
      workers, okLog, campEnded>>

\* await ai_service.generate_chatbot_reply(lead_context, messages)
chatbot_call(first_name, message, o) ==
    /\ o.kind = "not_called" <=> ~chat.openai_configured
    /\ chat' = [called |-> TRUE, openai_configured |-> chat.openai_configured,
                first_name |-> first_name, message |-> message, llm |-> o,
                result |-> generate_chatbot_reply(chat.openai_configured, first_name,
                                                  message, o)]
    /\ UNCHANGED chatFrame

\* AIService(): openai_configured and the client both follow OPENAI_API_KEY
AIInit ==
    /\ limit = 2
    /\ configured = FALSE
    /\ sendgrid = KeysFor(FALSE)
    /\ today = 0
    /\ limiter = [count |-> 0, date |-> 0]
    /\ leadStatus = [l \in LeadIds |-> "uploaded"]
    /\ campStatus = [c \in CampIds |-> "draft"]
    /\ campStarted = [c \in CampIds |-> FALSE]
    /\ campEnded = [c \in CampIds |-> FALSE]
    /\ seqs = <<>>
    /\ msgCounter = 0
    /\ pc = "idle"
    /\ queue = <<>>
    /\ results = EmptyResults
    /\ call = IdleCall
    /\ callsToday = 0
    /\ cleanToday = TRUE
    /\ templates = <<InitialOutreach>>
    /\ probe = NoProbe
    /\ template = <<>>
    /\ lead_data = EmptyLeadData
    /\ rendered = <<>>
    /\ delivery = NoDelivery
    /\ \E b \in BOOLEAN : chat = [NoChat EXCEPT !.openai_configured = b]
    /\ response = NoResponse
    /\ leadEmails = DemoEmails
    /\ upload = NoUpload
    /\ workers = IdleWorkers
    /\ okLog = EmptyLog

AINext ==
    \E n \in {"", "Ann"}, m \in SUBSET Intents, o \in LlmOutcomes \cup {[kind |-> "not_called"]} :
        chatbot_call(n, m, o)

AISpec == AIInit /\ [][AINext]_vars

\* C23: when the LLM call raises or returns a text that is not JSON,
\* generate_chatbot_reply raises nothing and answers with a fixed reply that
\* owes nothing to the provider's output; the next_action type it returns is
\* always one of continue, book_meeting, escalate_human, end.
C23_FixedReplyOnBadAnswer ==
    chat.called =>
        /\ ~chat.result.raised
        /\ chat.result.type \in AllowedTypes
        /\ chat.llm.kind \in {"raised", "text"} => chat.result.reply.kind = "fixed"

\* ===================================================== the campaign endpoints
\* the values CampaignUpdate.status admits, "unset" when the field is not sent
UpdateStatuses == {"unset", "draft", "scheduled", "active", "completed", "paused"}

\* POST /api/campaigns/{id}/pause: 404, then 400 unless the campaign is active
pause_campaign_status(st) ==
    IF st = "absent" THEN 404 ELSE IF st # "active" THEN 400 ELSE 200

\* POST /api/campaigns/{id}/resume: 404, then 400 unless the campaign is paused
resume_campaign_status(st) ==
    IF st = "absent" THEN 404 ELSE IF st # "paused" THEN 400 ELSE 200

\* a plausible slip: the check on the active campaign is missing
delete_campaign_status_unguarded(st) == IF st = "absent" THEN 404 ELSE 200

\* DELETE /api/campaigns/{id}: 404, then 400 for an active campaign
delete_campaign_status(st) ==
    IF st = "absent" THEN 404 ELSE IF st = "active" THEN 400 ELSE 200

\* PUT /api/campaigns/{id}: 404, then 400 when a status is sent for an active campaign
update_campaign_status(st, new) ==
    IF st = "absent" THEN 404 ELSE IF new # "unset" /\ st = "active" THEN 400 ELSE 200

\* POST /api/campaigns/{id}/complete: 404 only
complete_campaign_status(st) == IF st = "absent" THEN 404 ELSE 200

\* the checks of start_campaign that follow those on the campaign row
start_request_status(ids, tid, hasContent) ==
    IF tid # 0 /\ ~TemplateExists(tid) THEN 404
    ELSE IF tid = 0 /\ ~hasContent THEN 400
    ELSE IF {l \in ids : leadStatus[l] # "absent"} = {} THEN 400
    ELSE 200

campaignFrame ==
    <<quietVars, leadEmails, limit, configured, today, leadStatus, templates>>

\* POST /api/campaigns: a new row in status "draft" (the free slot stands for
\* the next identifier)
create_campaign(c) ==
    /\ pc = "idle"
    /\ campStatus[c] = "absent"
    /\ campStatus' = [campStatus EXCEPT ![c] = "draft"]
    /\ campStarted' = [campStarted EXCEPT ![c] = FALSE]
    /\ campEnded' = [campEnded EXCEPT ![c] = FALSE]
    /\ response' = [op |-> "create", campaign |-> c, arg |-> "", code |-> 200]
    /\ UNCHANGED campaignFrame
    /\ UNCHANGED dispatchVars

\* PUT /api/campaigns/{id}: every field sent is written with setattr, the status too
update_campaign(c, new) ==
    /\ pc = "idle"
    /\ LET code == update_campaign_status(campStatus[c], new)
       IN  /\ response' = [op |-> "update", campaign |-> c, arg |-> new, code |-> code]
           /\ campStatus' = IF code = 200 /\ new # "unset"
                            THEN [campStatus EXCEPT ![c] = new] ELSE campStatus
    /\ UNCHANGED <<campaignFrame, campStarted, campEnded>>
    /\ UNCHANGED dispatchVars

\* DELETE /api/campaigns/{id}
delete_campaign(c) ==
    /\ pc = "idle"
    /\ LET code == delete_campaign_status(campStatus[c])
       IN  /\ response' = [op |-> "delete", campaign |-> c, arg |-> "", code |-> code]
           /\ IF code = 200
              THEN /\ campStatus' = [campStatus EXCEPT ![c] = "absent"]
                   /\ campStarted' = [campStarted EXCEPT ![c] = FALSE]
                   /\ campEnded' = [campEnded EXCEPT ![c] = FALSE]
              ELSE UNCHANGED <<campStatus, campStarted, campEnded>>
    /\ UNCHANGED campaignFrame
    /\ UNCHANGED dispatchVars

\* POST /api/campaigns/{id}/pause answered with an HTTPException
pause_campaign_rejected(c) ==
    /\ pc = "idle"
    /\ pause_campaign_status(campStatus[c]) # 200
    /\ response' = [op |-> "pause", campaign |-> c, arg |-> "",
                    code |-> pause_campaign_status(campStatus[c])]
    /\ UNCHANGED <<campaignFrame, campStatus, campStarted, campEnded>>
    /\ UNCHANGED dispatchVars

\* POST /api/campaigns/{id}/resume: status back to "active", started_at untouched
resume_campaign(c) ==
    /\ pc = "idle"
    /\ LET code == resume_campaign_status(campStatus[c])
       IN  /\ response' = [op |-> "resume", campaign |-> c, arg |-> "", code |-> code]
           /\ campStatus' = IF code = 200
                            THEN [campStatus EXCEPT ![c] = "active"] ELSE campStatus
    /\ UNCHANGED <<campaignFrame, campStarted, campEnded>>
    /\ UNCHANGED dispatchVars

\* POST /api/campaigns/{id}/complete: from any status
complete_campaign(c) ==
    /\ pc = "idle"
    /\ LET code == complete_campaign_status(campStatus[c])
       IN  /\ response' = [op |-> "complete", campaign |-> c, arg |-> "", code |-> code]
           /\ IF code = 200
              THEN /\ campStatus' = [campStatus EXCEPT ![c] = "completed"]
                   /\ campEnded' = [campEnded EXCEPT ![c] = TRUE]
              ELSE UNCHANGED <<campStatus, campEnded>>
    /\ UNCHANGED <<campaignFrame, campStarted>>
    /\ UNCHANGED dispatchVars

\* POST /api/campaigns/quick-start: the draft campaign is added and committed,
\* then lead_ids is parsed (400 on a ValueError), then start_campaign runs on
\* the new campaign
quick_start_campaign(c, wellFormed, ids, tid, hasContent) ==
    /\ pc = "idle"
    /\ campStatus[c] = "absent"
    /\ LET code == IF ~wellFormed THEN 400 ELSE start_request_status(ids, tid, hasContent)
           leads == {l \in ids : leadStatus[l] # "absent"}
       IN  /\ response' = [op |-> "quick_start", campaign |-> c,
                            arg |-> IF wellFormed THEN "" ELSE "malformed_lead_ids",
                            code |-> code]
           /\ campEnded' = [campEnded EXCEPT ![c] = FALSE]
           /\ IF code = 200
              THEN /\ Len(seqs) + Cardinality(leads) <= SeqBound
                   /\ \E o \in Orders(leads) : queue' = o
                   /\ results' = [EmptyResults EXCEPT !.campaign_id = c,
                                                     !.total_leads = Cardinality(leads)]
                   /\ campStatus' = [campStatus EXCEPT ![c] = "active"]
                   /\ campStarted' = [campStarted EXCEPT ![c] = TRUE]
                   /\ pc' = "next"
                   /\ call' = IdleCall
              ELSE /\ campStatus' = [campStatus EXCEPT ![c] = "draft"]
                   /\ campStarted' = [campStarted EXCEPT ![c] = FALSE]
                   /\ UNCHANGED <<queue, results, pc, call>>
    /\ UNCHANGED campaignFrame
    /\ UNCHANGED <<limiter, seqs, msgCounter, callsToday, cleanToday>>

\* ===================================================== POST /api/leads/upload
MaxRows == 2

\* An email cell: 0 when empty, -1 for a text without "@" or ".", else the
\* address k written in lower case or with capitals.
EmailCells ==
    {[addr |-> a, upper |-> FALSE] : a \in {0, -1}}
    \cup {[addr |-> a, upper |-> u] : a \in 1..MaxLeads, u \in BOOLEAN}

\* the rows: any email cell with a first name, and one row without a first name
CsvRows ==
    {[email |-> e, first_name |-> TRUE] : e \in EmailCells}
    \cup {[email |-> [addr |-> 1, upper |-> FALSE], first_name |-> FALSE]}

\* the files: a name that does not end in .csv, no header line, a header line
\* without the required columns, or the required columns and some rows
CsvFiles ==
    {[csv_name |-> FALSE, headers |-> "ok", rows |-> <<>>]}
    \cup {[csv_name |-> TRUE, headers |-> h, rows |-> <<>>] : h \in {"none", "missing_required"}}
    \cup UNION {{[csv_name |-> TRUE, headers |-> "ok", rows |-> rs] : rs \in [1..n -> CsvRows]} :
                  n \in 0..MaxRows}

\* the files CSVParser.parse or the file-type check turns down as a whole
RejectedFiles == {f \in CsvFiles : ~f.csv_name \/ f.headers # "ok"}

\* _process_row: the row's lead dict (email lower-cased) or a row error
process_row(row) ==
    IF row.email.addr = 0 \/ ~row.first_name \/ row.email.addr = -1
    THEN [ok |-> FALSE, email |-> 0]
    ELSE [ok |-> TRUE, email |-> row.email.addr]

\* CSVParser.parse: (valid_leads, errors), the errors by their number
RECURSIVE parse_rows(_)
parse_rows(rows) ==
    IF rows = <<>> THEN [valid |-> <<>>, errors |-> 0]
    ELSE LET r == process_row(Head(rows))
             rest == parse_rows(Tail(rows))
         IN  IF r.ok THEN [valid |-> <<r.email>> \o rest.valid, errors |-> rest.errors]
             ELSE [valid |-> rest.valid, errors |-> rest.errors + 1]

parse(file) ==
    IF file.headers # "ok" THEN [valid |-> <<>>, errors |-> 1] ELSE parse_rows(file.rows)

\* select(Lead).where(Lead.email == ...) on a session with autoflush=False: the
\* rows of the table, not the leads added and not yet flushed
select_lead(stored, pending, email) == email \in stored

\* "for lead_data in valid_leads": duplicates counted, new leads added to the session
RECURSIVE upload_loop(_, _, _)
upload_loop(valid, stored, acc) ==
    IF valid = <<>> THEN acc
    ELSE IF select_lead(stored, acc.inserts, Head(valid))
         THEN upload_loop(Tail(valid), stored, [acc EXCEPT !.duplicates = @ + 1])
         ELSE upload_loop(Tail(valid), stored,
                          [acc EXCEPT !.created = @ + 1,
                                      !.inserts = Append(@, Head(valid))])

\* the emails of the leads table
StoredEmails(le) == {le[l] : l \in LeadIds} \ {0}

\* the unique constraint on leads.email lets the INSERTs of the commit through
commit_ok(inserts, stored) ==
    /\ \A i, j \in 1..Len(inserts) : inserts[i] = inserts[j] => i = j
    /\ \A i \in 1..Len(inserts) : inserts[i] \notin stored

\* the rows of the table after the i-th of the inserts has taken the next free id
RECURSIVE insert_leads(_, _)
insert_leads(le, inserts) ==
    IF inserts = <<>> THEN le
    ELSE LET free == {l \in LeadIds : le[l] = 0}
             id == CHOOSE l \in free : \A m \in free : l <= m
         IN  insert_leads([le EXCEPT ![id] = Head(inserts)], Tail(inserts))

uploadFrame ==
    <<probe, template, lead_data, rendered, sendgrid, delivery, chat, workers, okLog,
      campEnded, limit, configured, today, campStatus, campStarted, templates>>

\* POST /api/leads/upload: file-type check, parse, the loop, one commit at the
\* end; an IntegrityError of the commit leaves the handler, and get_db rolls back
upload_leads_csv(file) ==
    /\ pc = "idle"
    /\ LET p == parse(file)
           stored == StoredEmails(leadEmails)
           acc == upload_loop(p.valid, stored,
                              [duplicates |-> 0, created |-> 0, inserts |-> <<>>])
           answer(code, a) ==
               [file |-> file, code |-> code,
                valid_rows |-> IF code = 400 THEN 0 ELSE Len(p.valid),
                invalid_rows |-> IF code = 400 THEN 0 ELSE p.errors,
                duplicates |-> a.duplicates, created |-> a.created, inserts |-> a.inserts]
           none == [duplicates |-> 0, created |-> 0, inserts |-> <<>>]
       IN  IF ~file.csv_name
           THEN /\ upload' = answer(400, none)
                /\ response' = [op |-> "upload", campaign |-> 0, arg |-> "", code |-> 400]
                /\ UNCHANGED <<leadEmails, leadStatus>>
           ELSE IF p.valid = <<>> /\ p.errors > 0
           THEN /\ upload' = answer(200, none)
                /\ response' = [op |-> "upload", campaign |-> 0, arg |-> "", code |-> 200]
                /\ UNCHANGED <<leadEmails, leadStatus>>
           ELSE IF ~commit_ok(acc.inserts, stored)
           THEN /\ upload' = answer(500, acc)
                /\ response' = [op |-> "upload", campaign |-> 0, arg |-> "", code |-> 500]
                /\ UNCHANGED <<leadEmails, leadStatus>>
           ELSE /\ Len(acc.inserts) <= Cardinality({l \in LeadIds : leadEmails[l] = 0})
                /\ upload' = answer(200, acc)
                /\ response' = [op |-> "upload", campaign |-> 0, arg |-> "", code |-> 200]
                /\ leadEmails' = insert_leads(leadEmails, acc.inserts)
                /\ leadStatus' = [l \in LeadIds |->
                                    IF leadEmails[l] = 0 /\ leadEmails'[l] # 0
                                    THEN "uploaded" ELSE leadStatus[l]]
    /\ UNCHANGED uploadFrame
    /\ UNCHANGED dispatchVars

\* DELETE /api/leads/{id}, for a lead without email_sequences rows
delete_lead(l) ==
    /\ pc = "idle"
    /\ leadStatus[l] # "absent"
    /\ \A i \in 1..Len(seqs) : seqs[i].lead_id # l
    /\ leadStatus' = [leadStatus EXCEPT ![l] = "absent"]
    /\ leadEmails' = [leadEmails EXCEPT ![l] = 0]
    /\ response' = [op |-> "delete_lead", campaign |-> 0, arg |-> "", code |-> 200]
    /\ UNCHANGED <<upload, uploadFrame>>
    /\ UNCHANGED dispatchVars

UploadNext ==
    \/ \E f \in CsvFiles : upload_leads_csv(f)
    \/ \E l \in LeadIds : delete_lead(l)

\* the empty database of a deployment with the mock backend
UploadInit == InitEmpty /\ limit = 2 /\ ~configured

UploadSpec == UploadInit /\ [][UploadNext]_vars

\* C29: an upload creates at most one lead per email: a valid row whose email
\* is in the table or was in an earlier row of the file is counted as a
\* duplicate, created + duplicates = valid_rows, and the leads the upload hands
\* to the database have pairwise different emails.
C29_OneLeadPerEmail ==
    upload.code # 0 =>
        /\ upload.created + upload.duplicates = upload.valid_rows
        /\ \A i, j \in 1..Len(upload.inserts) :
               upload.inserts[i] = upload.inserts[j] => i = j
        /\ upload.code # 500

\* ------------------------------------- the campaign endpoints with the dispatch
CampaignNext ==
    \/ DispatchStep
    \/ \E c \in CampIds : create_campaign(c)
    \/ \E c \in CampIds, st \in UpdateStatuses : update_campaign(c, st)
    \/ \E c \in CampIds : delete_campaign(c)
    \/ \E c \in CampIds : pause_campaign_rejected(c)
    \/ \E c \in CampIds : resume_campaign(c)
    \/ \E c \in CampIds : complete_campaign(c)
    \/ \E c \in CampIds, wf \in BOOLEAN, ids \in SUBSET LeadIds \ {{}}, tid \in 0..2,
          h \in BOOLEAN : quick_start_campaign(c, wf, ids, tid, h)
    \/ \E f \in RejectedFiles : upload_leads_csv(f)

CampaignSpec == Init /\ [][CampaignNext]_vars

\* the campaign operations that are guarded by the campaign's status
GuardedOps == {"pause", "resume", "start", "delete", "update"}

persisted == <<leadStatus, leadEmails, campStatus, campStarted, campEnded, seqs, templates>>

\* C24: a request turned down for a validation error changes nothing that is
\* stored: an upload whose CSV lacks the required columns, a start_campaign
\* answered 400 (no subject or body, no valid lead), a quick-start whose
\* lead_ids do not parse.
C24_RejectedHasNoEffect ==
    [][pc = "idle" /\
       (\/ response'.op = "upload" /\ upload'.file.headers = "missing_required"
        \/ response'.op = "start" /\ response'.code = 400
        \/ response'.op = "quick_start" /\ response'.arg = "malformed_lead_ids")
       => persisted' = persisted]_vars

\* ===================================================== callers on one event loop
\* send_campaign_email as several requests run it at once. _send_mock and
\* _send_via_sendgrid contain no await, so a call runs from can_send() through
\* the provider call and record_send() without giving up the event loop; it
\* gives it up in "await asyncio.sleep(wait_seconds)" after a failed attempt.

\* a plausible slip: every attempt is counted, failed or not
limiter_after_any(lim, t, r) == record_send(lim, t)

\* "if last_result.get('success'): _daily_limiter.record_send()"
limiter_after(lim, t, r) == IF r.success THEN record_send(lim, t) ELSE lim

\* the history of successful returns, by the day of the successful attempt
log_after(log, t, r) == IF r.success THEN [log EXCEPT ![t] = @ + 1] ELSE log

\* the caller's position after the attempt: returned, or asleep before the next
worker_after(attempt, r) ==
    IF r.success THEN [pc |-> "idle", attempt |-> 0, last |-> "success"]
    ELSE IF more_attempts(attempt)
    THEN [pc |-> "sleeping", attempt |-> attempt, last |-> "failure"]
    ELSE [pc |-> "idle", attempt |-> 0, last |-> "failure"]

serviceFrame ==
    <<limit, configured, today, leadStatus, campStatus, campStarted, campEnded, seqs, pc,
      queue, results, call, callsToday, cleanToday, templates, probe, template, lead_data,
      rendered, sendgrid, delivery, chat, response, leadEmails, upload>>

\* a request calls send_campaign_email: the limit check, then the first attempt
campaign_send_begin(r, o) ==
    /\ workers[r].pc = "idle"
    /\ reset_if_new_day(limiter, today).count < MaxCount
    /\ o \in OutcomesFor(sendgrid)
    /\ IF ~can_send(limiter, today)
       THEN /\ workers' = [workers EXCEPT ![r] = [IdleWorker EXCEPT !.last = "skipped"]]
            /\ limiter' = reset_if_new_day(limiter, today)
            /\ UNCHANGED <<msgCounter, okLog>>
       ELSE LET res == send_email(sendgrid, o, msgCounter + 1)
            IN  /\ workers' = [workers EXCEPT ![r] = worker_after(1, res)]
                /\ limiter' = limiter_after(reset_if_new_day(limiter, today), today, res)
                /\ okLog' = log_after(okLog, today, res)
                /\ msgCounter' = msgCounter + IdsIn(<<res>>)
    /\ UNCHANGED serviceFrame

\* the sleep of a request is over: the next attempt, without a new limit check
campaign_send_retry(r, o) ==
    /\ workers[r].pc = "sleeping"
    /\ o \in OutcomesFor(sendgrid)
    /\ LET res == send_email(sendgrid, o, msgCounter + 1)
       IN  /\ workers' = [workers EXCEPT ![r] = worker_after(workers[r].attempt + 1, res)]
           /\ limiter' = limiter_after(limiter, today, res)
           /\ okLog' = log_after(okLog, today, res)
           /\ msgCounter' = msgCounter + IdsIn(<<res>>)
    /\ UNCHANGED serviceFrame

ServiceNext ==
    \/ \E r \in Requests, o \in ProviderOutcomes \cup {NotCalled} : campaign_send_begin(r, o)
    \/ \E r \in Requests, o \in ProviderOutcomes \cup {NotCalled} : campaign_send_retry(r, o)
    \/ \E f \in {None}, o \in ProviderOutcomes \cup {NotCalled} : send_email_call(f, o)
    \/ \E os \in BulkOutcomes : send_bulk_call(os)
    \/ Tick

ServiceSpec == Init /\ [][ServiceNext]_vars

\* C25: with several campaign requests in flight on the one event loop, and a positive
\* limit L, the number of sends the limiter has recorded for a day never exceeds L.
C25_CountWithinLimit ==
    limit > 0 => sent_today(limiter, today).value <= limit

\* C26: within a day sent_today is the number of send_campaign_email calls that
\* succeeded that day: a failed or skipped call, and a send made through
\* send_email or send_bulk, leave it as it was.
C26_CountIsSuccessfulCampaignSends ==
    sent_today(limiter, today).value = okLog[today]

\* one caller was skipped by the limit, another failed all its attempts, a direct
\* send_email succeeded, and the two sends counted are the two successful calls
C26_Witness ==
    /\ workers[1].last = "skipped"
    /\ workers[2] = [pc |-> "idle", attempt |-> 0, last |-> "failure"]
    /\ delivery.op = "send_email"
    /\ delivery.results[1].success
    /\ okLog[today] = 2
    /\ sent_today(limiter, today).value = 2

\* ===================================================== termination of a batch
\* The request is a coroutine of the event loop: once the awaited provider
\* call, sleep, flush or commit has returned, its next step is taken.
FairSpec ==
    /\ Init
    /\ [][Next]_vars
    /\ WF_vars(start_campaign_lead)
    /\ WF_vars(send_attempt)
    /\ WF_vars(backoff_sleep)
    /\ WF_vars(start_campaign_commit)
    /\ WF_vars(start_campaign_return)

\* the rows of the leads handled before the current one are settled
EarlierRowsSettled ==
    \A i \in 1..Len(seqs) : seqs[i].status = "pending" =>
        i = Len(seqs) /\ pc \in {"send", "sleep"} /\ call.sequence_id = i

\* C30: a started batch always comes to its return: the leads are handled one
\* after another, each with at most 3 provider calls and at most 2 backoff
\* sleeps, and then the summary is returned.
C30_StartTerminates ==
    /\ [](/\ call.provider_calls <= MaxRetries
          /\ call.attempt <= MaxRetries
          /\ call.slept <= wait_seconds(1) + wait_seconds(2)
          /\ EarlierRowsSettled)
    /\ (pc # "idle") ~> (pc = "returning" /\ queue = <<>>)
    /\ (pc = "returning") ~> (pc = "idle")

\* the summary of a batch of two leads is about to be returned, one of the
\* leads having failed after all its attempts
C30_Witness ==
    /\ pc = "returning"
    /\ results.total_leads = 2
    /\ results.emails_failed >= 1
    /\ results.emails_sent + results.emails_failed = 2
    /\ Len(results.details) = 2

====
